---------------------------- MODULE Spec2Model ----------------------------
(***************************************************************************)
(* Angle / AngleRange of LABS_OOP, in its two translation units:           *)
(*   "LAB_1"    = src/LAB_1/main.cpp    (double, normalizing constructor,  *)
(*                touch-test overlap detection)                            *)
(*   "part_000" = src/unnamed/part_000  (float, raw constructor, lazily    *)
(*                normalized comparisons, ordering-test overlap detection) *)
(*                                                                         *)
(* Number model.  A floating-point value is an integer count of the        *)
(* smallest unit the model distinguishes.  The format has two precisions,  *)
(* as a binary floating-point type has many: magnitudes below Fine are     *)
(* spaced 1 apart, magnitudes from Fine upward are spaced Gap apart, and   *)
(* every arithmetic result is rounded to the nearest representable value   *)
(* (ties to the even multiple).  fmod is exact, as it is in IEEE-754.      *)
(* A full turn is TwoPi = 2 * Pi units.  NaN is carried as a flag.         *)
(***************************************************************************)
EXTENDS Integers, Sequences, FiniteSets

VARIABLES impl, pc, this, other, result, len, m_rad, nan, thrown, op, arg, prev

vars == <<impl, pc, this, other, result, len, m_rad, nan, thrown, op, arg, prev>>
rangeVars == <<pc, this, other, result, len>>
angleVars == <<m_rad, nan, thrown, op, arg, prev>>

Impls == {"LAB_1", "part_000"}

(* ------------------------------ bounds --------------------------------- *)
\* scalar inputs (radians) handed to constructors, setters and arithmetic
\* range over -MaxNeg .. MaxRaw
MaxNeg == 4
MaxRaw == 8
\* largest magnitude an un-normalized (part_000) Angle may reach by arithmetic
MaxMag == 16

(* ------------------------- number model -------------------------------- *)
Pi == 4
TwoPi == 2 * Pi
Fine == 4
Gap == 4
EPS == 3

Abs(x) == IF x < 0 THEN 0 - x ELSE x

IsRep(x) == Abs(x) < Fine \/ x % Gap = 0

\* round-to-nearest, ties-to-even, of an exact integer result
Round(x) ==
    IF IsRep(x) THEN x
    ELSE LET lo == (x \div Gap) * Gap
             hi == lo + Gap
         IN  IF x - lo < hi - x THEN lo
             ELSE IF x - lo > hi - x THEN hi
             ELSE IF (lo \div Gap) % 2 = 0 THEN lo ELSE hi

\* nearest integer to the rational n / d (d # 0), ties to even; then rounded
RoundDiv(n, d) ==
    LET nn == IF d < 0 THEN 0 - n ELSE n
        dd == Abs(d)
        q  == nn \div dd
        r  == nn - q * dd
    IN  Round(IF 2 * r < dd THEN q
              ELSE IF 2 * r > dd THEN q + 1
              ELSE IF q % 2 = 0 THEN q ELSE q + 1)

\* C fmod: exact, result has the sign of the dividend
Fmod(x, m) == IF x >= 0 THEN x % m ELSE 0 - ((0 - x) % m)

RawInputs == {r \in (0 - MaxNeg)..MaxRaw : IsRep(r)}

(* ------------------------------ Angle ---------------------------------- *)
normalize(angle_rad) ==
    LET f == Fmod(angle_rad, TwoPi)
    IN  IF f < 0 THEN Round(f + TwoPi) ELSE f

\* Angle(rad): LAB_1 normalizes, part_000 stores the value as given
AngleCtor(i, rad) == IF i = "LAB_1" THEN normalize(rad) ELSE rad

from_radians(i, rad) == AngleCtor(i, rad)

\* the value the comparison operators look at
Key(i, x) == IF i = "LAB_1" THEN x ELSE normalize(x)

AngleEq(i, x, y) == Abs(Round(Key(i, x) - Key(i, y))) < EPS
AngleLt(i, x, y) == Key(i, x) < Key(i, y)
AngleGt(i, x, y) == Key(i, x) > Key(i, y)
AngleLe(i, x, y) == IF i = "LAB_1" THEN x <= y ELSE ~AngleGt(i, x, y)
AngleGe(i, x, y) == IF i = "LAB_1" THEN x >= y ELSE ~AngleLt(i, x, y)

\* every Angle a caller can build from a scalar input
Angles(i) == {from_radians(i, r) : r \in RawInputs}

(* ---------------------------- AngleRange ------------------------------- *)
AngleRange(start, end, in_start, in_end) ==
    [m_start |-> start, m_end |-> end, m_in_start |-> in_start, m_in_end |-> in_end]

AngleRangeRad(i, start_rad, end_rad, in_start, in_end) ==
    AngleRange(from_radians(i, start_rad), from_radians(i, end_rad), in_start, in_end)

Ranges(i) == {AngleRange(s, e, is, ie) :
                 s \in Angles(i), e \in Angles(i), is \in BOOLEAN, ie \in BOOLEAN}

containsAngle(i, r, x) ==
    LET left_ok  == IF r.m_in_start THEN AngleGe(i, x, r.m_start) ELSE AngleGt(i, x, r.m_start)
        right_ok == IF r.m_in_end THEN AngleLe(i, x, r.m_end) ELSE AngleLt(i, x, r.m_end)
    IN  left_ok /\ right_ok

containsRange(i, r, o) == containsAngle(i, r, o.m_start) /\ containsAngle(i, r, o.m_end)

\* Disjoint with the ordering test made non-strict (touching counts as apart)
Disjoint_NonStrict(i, t, o) ==
    IF i = "LAB_1"
    THEN /\ ~containsAngle(i, t, o.m_start)
         /\ ~containsAngle(i, t, o.m_end)
         /\ ~containsAngle(i, o, t.m_start)
         /\ ~containsAngle(i, o, t.m_end)
    ELSE AngleLe(i, t.m_end, o.m_start) \/ AngleLe(i, o.m_end, t.m_start)

\* the test that sends operator+ and operator- to their "no overlap" branch
Disjoint(i, t, o) ==
    IF i = "LAB_1"
    THEN /\ ~containsAngle(i, t, o.m_start)
         /\ ~containsAngle(i, t, o.m_end)
         /\ ~containsAngle(i, o, t.m_start)
         /\ ~containsAngle(i, o, t.m_end)
    ELSE AngleLt(i, t.m_end, o.m_start) \/ AngleLt(i, o.m_end, t.m_start)

\* Merged with ties resolved towards the receiver (<= and >= for < and >)
Merged_TieReceiver(i, t, o) ==
    LET startFromThis == AngleLe(i, t.m_start, o.m_start)
        endFromThis   == AngleGe(i, t.m_end, o.m_end)
    IN  AngleRange(IF startFromThis THEN t.m_start ELSE o.m_start,
                   IF endFromThis THEN t.m_end ELSE o.m_end,
                   IF startFromThis THEN t.m_in_start ELSE o.m_in_start,
                   IF endFromThis THEN t.m_in_end ELSE o.m_in_end)

Merged(i, t, o) ==
    LET startFromThis == AngleLt(i, t.m_start, o.m_start)
        endFromThis   == AngleGt(i, t.m_end, o.m_end)
    IN  AngleRange(IF startFromThis THEN t.m_start ELSE o.m_start,
                   IF endFromThis THEN t.m_end ELSE o.m_end,
                   IF startFromThis THEN t.m_in_start ELSE o.m_in_start,
                   IF endFromThis THEN t.m_in_end ELSE o.m_in_end)

PlusRange(i, t, o) ==
    IF Disjoint(i, t, o) THEN <<t, o>> ELSE <<Merged(i, t, o)>>

LeftPiece(t, o)  == AngleRange(t.m_start, o.m_start, t.m_in_start, ~o.m_in_start)
RightPiece(t, o) == AngleRange(o.m_end, t.m_end, ~o.m_in_end, t.m_in_end)

\* conditions of the two push_backs in the "this contains other" branch
NestedLeft(i, t, o) ==
    \/ AngleLt(i, t.m_start, o.m_start)
    \/ /\ i = "part_000"
       /\ AngleEq(i, t.m_start, o.m_start) /\ t.m_in_start /\ ~o.m_in_start

NestedRight(i, t, o) ==
    \/ AngleLt(i, o.m_end, t.m_end)
    \/ /\ i = "part_000"
       /\ AngleEq(i, o.m_end, t.m_end) /\ ~o.m_in_end /\ t.m_in_end

MinusRange(i, t, o) ==
    IF Disjoint(i, t, o) THEN <<t>>
    ELSE IF containsRange(i, o, t) THEN <<>>
    ELSE IF containsRange(i, t, o)
         THEN (IF NestedLeft(i, t, o) THEN <<LeftPiece(t, o)>> ELSE <<>>)
              \o (IF NestedRight(i, t, o) THEN <<RightPiece(t, o)>> ELSE <<>>)
    ELSE (IF containsAngle(i, t, o.m_start) THEN <<LeftPiece(t, o)>> ELSE <<>>)
         \o (IF containsAngle(i, t, o.m_end) THEN <<RightPiece(t, o)>> ELSE <<>>)

\* length(): the difference is rounded, and so is the sum with 2 * PI
length(r) ==
    LET d == Round(r.m_end - r.m_start)
    IN  IF d < 0 THEN Round(d + TwoPi) ELSE d

(* ----------------------- range algebra driver -------------------------- *)
ZeroRange == AngleRange(0, 0, TRUE, TRUE)

Init ==
    /\ impl \in Impls
    /\ pc = "start"
    /\ this = ZeroRange /\ other = ZeroRange /\ result = <<>> /\ len = 0
    /\ m_rad = 0 /\ nan = FALSE /\ thrown = "none"
    /\ op = "Angle" /\ arg = 0 /\ prev = 0

\* AngleRange(const Angle&, const Angle&, bool, bool), twice
Construct ==
    /\ pc = "start"
    /\ \E t \in Ranges(impl), o \in Ranges(impl) : this' = t /\ other' = o
    /\ pc' = "built" /\ result' = <<>>
    /\ UNCHANGED <<impl, len, angleVars>>

\* AngleRange(double, double, bool, bool), twice
ConstructRad ==
    /\ pc = "start"
    /\ \E s1 \in RawInputs, e1 \in RawInputs, s2 \in RawInputs, e2 \in RawInputs,
          f \in [1..4 -> BOOLEAN] :
          /\ this' = AngleRangeRad(impl, s1, e1, f[1], f[2])
          /\ other' = AngleRangeRad(impl, s2, e2, f[3], f[4])
    /\ pc' = "built" /\ result' = <<>>
    /\ UNCHANGED <<impl, len, angleVars>>

Plus ==
    /\ pc = "built"
    /\ result' = PlusRange(impl, this, other)
    /\ pc' = "plus"
    /\ UNCHANGED <<impl, this, other, len, angleVars>>

Minus ==
    /\ pc = "built"
    /\ result' = MinusRange(impl, this, other)
    /\ pc' = "minus"
    /\ UNCHANGED <<impl, this, other, len, angleVars>>

\* this.length()
Length ==
    /\ pc = "built"
    /\ len' = length(this)
    /\ pc' = "length"
    /\ UNCHANGED <<impl, this, other, result, angleVars>>

Next == Construct \/ ConstructRad \/ Plus \/ Minus \/ Length

Spec == Init /\ [][Next]_vars


(* ------------------------ Angle arithmetic driver ---------------------- *)
\* degree arguments handed to from_degrees / setDegrees
DegInputs == {-90, -45, 0, 10, 45, 90, 180, 270, 360, 405}

\* deg * PI / 180.0: a rounded product, then a rounded quotient
DegToRad(deg) == RoundDiv(Round(deg * Pi), 180)

from_degrees(i, deg) == AngleCtor(i, DegToRad(deg))

\* the Angle object x after "x = <expression>": value v, no exception
Store(v, o, a) ==
    /\ m_rad' = v /\ nan' = FALSE /\ thrown' = "none"
    /\ op' = o /\ arg' = a /\ prev' = m_rad
    /\ UNCHANGED <<impl, rangeVars>>

\* x = Angle(v) where v was computed from x.m_rad: NaN in, NaN out
\* (fmod(NaN) is NaN and NaN < 0 is false, so normalize returns NaN)
Arith(v, o, a) ==
    /\ thrown = "none"
    /\ impl = "part_000" => Abs(v) <= MaxMag
    /\ m_rad' = (IF nan THEN 0 ELSE AngleCtor(impl, v))
    /\ nan' = nan /\ thrown' = "none"
    /\ op' = o /\ arg' = a /\ prev' = m_rad
    /\ UNCHANGED <<impl, rangeVars>>

DefaultCtor == thrown = "none" /\ Store(0, "Angle", 0)

FromRadians == thrown = "none" /\ \E r \in RawInputs : Store(from_radians(impl, r), "from_radians", r)

FromDegrees == thrown = "none" /\ \E d \in DegInputs : Store(from_degrees(impl, d), "from_degrees", d)

SetRadians ==
    thrown = "none" /\ \E r \in RawInputs :
        Store(IF impl = "LAB_1" THEN normalize(r) ELSE r, "setRadians", r)

SetDegrees ==
    thrown = "none" /\ \E d \in DegInputs :
        Store(IF impl = "LAB_1" THEN normalize(DegToRad(d)) ELSE DegToRad(d), "setDegrees", d)

\* copy constructor / operator= from another Angle
Assign == thrown = "none" /\ \E o \in Angles(impl) : Store(o, "assign", o)

PlusAngle    == \E o \in Angles(impl) : Arith(Round(m_rad + o), "plus_angle", o)
PlusScalar   == \E r \in RawInputs : Arith(Round(m_rad + r), "plus_scalar", r)
MinusAngle   == \E o \in Angles(impl) : Arith(Round(m_rad - o), "minus_angle", o)
MinusScalar  == \E r \in RawInputs : Arith(Round(m_rad - r), "minus_scalar", r)
Times        == \E f \in RawInputs : Arith(Round(m_rad * f), "times", f)
ScalarPlus   == \E r \in RawInputs : Arith(Round(r + m_rad), "scalar_plus", r)
ScalarMinus  == \E r \in RawInputs : Arith(Round(r - m_rad), "scalar_minus", r)
ScalarTimes  == impl = "part_000" /\ \E f \in RawInputs : Arith(Round(f * m_rad), "scalar_times", f)

\* operator/: part_000 throws std::invalid_argument on a zero divisor; LAB_1
\* has the check commented out, divides (x / 0.0 is an infinity or NaN) and
\* normalizes, and fmod of an infinity or NaN is NaN
Divide ==
    \E d \in RawInputs :
        IF d = 0
        THEN /\ thrown = "none"
             /\ IF impl = "part_000"
                THEN m_rad' = m_rad /\ nan' = nan /\ thrown' = "invalid_argument"
                ELSE m_rad' = 0 /\ nan' = TRUE /\ thrown' = "none"
             /\ op' = "divide" /\ arg' = d /\ prev' = m_rad
             /\ UNCHANGED <<impl, rangeVars>>
        ELSE Arith(RoundDiv(m_rad, d), "divide", d)

NextAngle ==
    \/ DefaultCtor \/ FromRadians \/ FromDegrees \/ SetRadians \/ SetDegrees \/ Assign
    \/ PlusAngle \/ PlusScalar \/ MinusAngle \/ MinusScalar \/ Times \/ Divide
    \/ ScalarPlus \/ ScalarMinus \/ ScalarTimes

SpecAngle == Init /\ [][NextAngle]_vars

(* ------------------------ range algebra claims ------------------------- *)
\* x lies in some range of the sequence rs, per contains(Angle)
Covered(i, rs, x) == \E k \in 1..Len(rs) : containsAngle(i, rs[k], x)

\* Circle points at half-unit resolution: p stands for the angle p / 2, so
\* every open gap between two adjacent representable angles has a sample.
HalfPoints == 0..(2 * TwoPi)

\* p / 2 lies on the arc swept from r.m_start to r.m_end in the increasing
\* direction, through 0 when the end precedes the start
OnArc(i, r, p) ==
    LET s == 2 * Key(i, r.m_start)
        e == 2 * Key(i, r.m_end)
        left_ok  == IF r.m_in_start THEN p >= s ELSE p > s
        right_ok == IF r.m_in_end THEN p <= e ELSE p < e
    IN  IF s <= e THEN left_ok /\ right_ok ELSE left_ok \/ right_ok

NonDegenerate(i, r) == ~AngleEq(i, r.m_start, r.m_end)

Wraps(i, r) == Key(i, r.m_end) < Key(i, r.m_start)

ArcSubset(i, t, o) ==
    /\ \E p \in HalfPoints : OnArc(i, t, p)
    /\ \A p \in HalfPoints : OnArc(i, t, p) => OnArc(i, o, p)

\* C1: whenever every angle on the (non-empty) arc of this lies on the arc of
\* other, this - other is the empty sequence; stated for the case the claim
\* singles out, an other that wraps through 0 around a this that does not.
C1_FullContainmentEmpty ==
    (/\ pc = "minus"
     /\ Wraps(impl, other) /\ ~Wraps(impl, this)
     /\ ArcSubset(impl, this, other)) => result = <<>>

\* C2: in part_000, this + other is exactly <<this, other>> iff
\* this.end < other.start or other.end < this.start on normalized values;
\* otherwise it is exactly one range; never zero or more than two ranges.
C2_UnionDisjointIff ==
    (pc = "plus" /\ impl = "part_000") =>
        LET dis == \/ normalize(this.m_end) < normalize(other.m_start)
                   \/ normalize(other.m_end) < normalize(this.m_start)
        IN  /\ Len(result) \in {1, 2}
            /\ dis <=> (result = <<this, other>>)
            /\ ~dis <=> (Len(result) = 1)

C2_Witness ==
    /\ pc = "plus" /\ impl = "part_000"
    /\ result = <<this, other>>
    /\ this # other
    /\ normalize(other.m_end) < normalize(this.m_start)

\* the merged start (end) is the smaller start (larger end) with its owner's
\* flag; tieThis says whose flag a tie takes
MergedEndpointsOk(tieThis) ==
    LET m  == result[1]
        ts == Key(impl, this.m_start)
        os == Key(impl, other.m_start)
        te == Key(impl, this.m_end)
        oe == Key(impl, other.m_end)
    IN  /\ ts < os => (m.m_start = this.m_start /\ m.m_in_start = this.m_in_start)
        /\ os < ts => (m.m_start = other.m_start /\ m.m_in_start = other.m_in_start)
        /\ ts = os => /\ Key(impl, m.m_start) = ts
                      /\ m.m_in_start = (IF tieThis THEN this.m_in_start ELSE other.m_in_start)
        /\ te > oe => (m.m_end = this.m_end /\ m.m_in_end = this.m_in_end)
        /\ oe > te => (m.m_end = other.m_end /\ m.m_in_end = other.m_in_end)
        /\ te = oe => /\ Key(impl, m.m_end) = te
                      /\ m.m_in_end = (IF tieThis THEN this.m_in_end ELSE other.m_in_end)

C4_NestedRemainders ==
    (/\ pc = "minus"
     /\ NonDegenerate(impl, this) /\ NonDegenerate(impl, other)
     /\ containsRange(impl, this, other)
     /\ ~containsRange(impl, other, this)) =>
        LET left  == \/ AngleLt(impl, this.m_start, other.m_start)
                     \/ /\ AngleEq(impl, this.m_start, other.m_start)
                        /\ this.m_in_start /\ ~other.m_in_start
            right == \/ AngleLt(impl, other.m_end, this.m_end)
                     \/ /\ AngleEq(impl, other.m_end, this.m_end)
                        /\ ~other.m_in_end /\ this.m_in_end
        IN  result =
              (IF left
               THEN <<AngleRange(this.m_start, other.m_start, this.m_in_start, ~other.m_in_start)>>
               ELSE <<>>)
              \o
              (IF right
               THEN <<AngleRange(other.m_end, this.m_end, ~other.m_in_end, this.m_in_end)>>
               ELSE <<>>)

\* C5: r - r is the empty sequence for every range r with r.start # r.end,
\* whatever its two inclusivity flags, wrapping or not.
C5_SelfDifferenceEmpty ==
    (/\ pc = "minus"
     /\ this = other
     /\ NonDegenerate(impl, this)) => result = <<>>

\* the two operands are proper arcs (start and end differ beyond tolerance)
ProperOperands == NonDegenerate(impl, this) /\ NonDegenerate(impl, other)

\* C6: a + b and b + a cover the same angles (already for proper arcs).
C6_UnionCommutes ==
    (pc = "plus" /\ ProperOperands) =>
        \A x \in Angles(impl) :
            Covered(impl, result, x) <=> Covered(impl, PlusRange(impl, other, this), x)

\* C7: an angle is covered by a + b iff a contains it or b contains it
\* (already for proper arcs).
C7_UnionIsSetUnion ==
    (pc = "plus" /\ ProperOperands) =>
        \A x \in Angles(impl) :
            Covered(impl, result, x) <=>
                (containsAngle(impl, this, x) \/ containsAngle(impl, other, x))

\* C8: an angle is covered by a - b iff a contains it and b does not
\* (already for proper arcs).
C8_DifferenceIsSetDifference ==
    (pc = "minus" /\ ProperOperands) =>
        \A x \in Angles(impl) :
            Covered(impl, result, x) <=>
                (containsAngle(impl, this, x) /\ ~containsAngle(impl, other, x))


(* --------------------------- Angle claims ------------------------------ *)
\* C9: a / 0 ends in a division-by-zero error and produces no Angle (never
\* an infinite or NaN one); a / d for d # 0 succeeds with the angle
\* a.radians / d; in both implementations.
C9_DivisionByZeroFails ==
    op = "divide" =>
        IF arg = 0
        THEN thrown # "none" /\ ~nan /\ m_rad = prev
        ELSE thrown = "none" /\ (~nan => m_rad = AngleCtor(impl, RoundDiv(prev, arg)))

\* C10: in LAB_1, after any sequence of construction, setters, assignment
\* and arithmetic without a zero divisor, the stored radians lie in
\* [0, 2 pi), and from_radians(r) == from_radians(r + 2 pi).
C10_StoredInHalfOpenTurn ==
    (impl = "LAB_1" /\ ~nan) =>
        /\ 0 <= m_rad /\ m_rad < TwoPi
        /\ op = "from_radians" =>
               AngleEq(impl, m_rad, from_radians(impl, Round(arg + TwoPi)))

(* --------------------------- length claim ------------------------------ *)
\* C11: length() is end.radians - start.radians, plus 2 pi if that is
\* negative, and always lies in [0, 2 pi), for a range built by either
\* constructor from any endpoint values; stated for part_000, where the
\* failure involves no rounding, and for endpoints whose difference (and
\* its sum with 2 pi) is exactly representable.
C11_LengthInHalfOpenTurn ==
    LET d == this.m_end - this.m_start
    IN  (/\ pc = "length" /\ impl = "part_000"
         /\ IsRep(d) /\ IsRep(d + TwoPi)) =>
            /\ len = (IF d < 0 THEN d + TwoPi ELSE d)
            /\ 0 <= len /\ len < TwoPi

=============================================================================
